---- MODULE Spec2Model ----
(***************************************************************************)
(* Model of the Twitch chat client of nanochat (src/src/twitch.rs and its  *)
(* conn submodule): Client::connect, Client::reconnect, Client::handshake, *)
(* Reader::message and ConnectionError::should_retry.                      *)
(*                                                                         *)
(* Text (Rust String / &str) is a sequence of one-character strings, so    *)
(* that formatting and substring search are computed, not assumed.         *)
(* Option<T> is a sequence of length 0 (None) or 1 (Some).                 *)
(* Every await is one step: the outcome of the awaited I/O is chosen by    *)
(* the environment among the values of its result type.                    *)
(***************************************************************************)
EXTENDS Integers, Sequences, FiniteSets, TLC

VARIABLES
  pc,            \* position of the caller inside connect / reconnect / handshake
  ctx,           \* which operation is running or ran last: "connect" | "reconnect"
  reader,        \* Client.reader: [gen, fused]; gen names the transport it reads:
                 \*   the number of the open attempt of the current call that
                 \*   produced it, 0 for the transport held when the call began
  writer,        \* Client.writer: [gen, buffered]; buffered: bytes it accepted are
                 \*   still held in the TLS session, not yet written to the socket
  out,           \* Client.out, the scratch String
  tls,           \* Client.tls: identity of the loaded TlsConfig (0 = none)
  config,        \* Client.config: [nick, pass]
  tries,         \* reconnect local `tries`
  delay,         \* reconnect local `delay`, in seconds
  writeFails,    \* handshake writes that did not complete, over the whole run
  tlsLoads,      \* number of TlsConfig::load calls so far
  sent,          \* bytes handed to the last write_all of the handshake
  calls,         \* number of reconnect calls started
  result,        \* value returned by the last connect / reconnect call
  hsResult,      \* value returned by the last handshake call
  message,       \* handshake local `message` (Option)
  sleeps,        \* durations slept so far in the current reconnect call
  openAttempts,  \* conn::open calls started in the current call
  openIoFails,   \* of those, how many ended in OpenStreamError::Io
  hsRetries,     \* handshakes of the current call whose error was retried
  stages,        \* steps of the current attempt, in order
  lastRead,      \* value returned by the last Reader::message call of the caller
  srIn,          \* should_retry: the ConnectionError it is applied to
  srOut,         \* should_retry: its answer (Option)
  openedWith,    \* identity of the TlsConfig handed to the last conn::open (0 = none)
  polled,        \* whether the last Reader::message call of the caller polled the line source
  anonN,         \* ChatConfig::anon: the number drawn from the random generator (0 = none)
  lastSend,      \* outcome of the last Client::send call of the caller: "-" | "Ok" | "Io"
  lastItem       \* what the fused line source yielded to the last Reader::message call of the caller

vars == <<pc, ctx, reader, writer, out, tls, config, tries, delay, writeFails,
          tlsLoads, sent, calls, result, hsResult, message, sleeps,
          openAttempts, openIoFails, hsRetries, stages, lastRead, srIn, srOut, openedWith, polled, anonN, lastSend, lastItem>>

----------------------------------------------------------------------------
(* Bounds of the model *)

\* number of reconnect calls the caller makes on one Client
MaxCalls == 2

\* number of handshake writes the network fails or stalls past the deadline
MaxWriteFails == 2

----------------------------------------------------------------------------
(* Text constants *)

CAP == <<"t", "w", "i", "t", "c", "h", ".", "t", "v", "/", "c", "o", "m", "m", "a", "n", "d", "s", " ", "t", "w", "i", "t", "c", "h", ".", "t", "v", "/", "t", "a", "g", "s">>

AUTH_FAILED == <<"a", "u", "t", "h", "e", "n", "t", "i", "c", "a", "t", "i", "o", "n", " ", "f", "a", "i", "l", "e", "d">>

CAP_REQ == <<"C", "A", "P", " ", "R", "E", "Q", " ", ":">>

NICK == <<"N", "I", "C", "K", " ">>

PASS == <<"P", "A", "S", "S", " ">>

CRLF == <<"\r", "\n">>

\* parameter texts a reply of the server may carry
TxtLoginFailed == <<"*", " ", ":", "L", "o", "g", "i", "n", " ", "a", "u", "t", "h", "e", "n", "t", "i", "c", "a", "t", "i", "o", "n", " ", "f", "a", "i", "l", "e", "d">>

TxtImproper == <<"*", " ", ":", "I", "m", "p", "r", "o", "p", "e", "r", "l", "y", " ", "f", "o", "r", "m", "a", "t", "t", "e", "d", " ", "a", "u", "t", "h">>

TxtNearMiss == <<"*", " ", ":", "a", "u", "t", "h", "e", "n", "t", "i", "c", "a", "t", "i", "o", "n", " ", "f", "a", "i", "l">>

\* the parameter text of the server's capability acknowledgment
TxtAck == <<"*", " ", "A", "C", "K", " ", ":", "t", "w", "i", "t", "c", "h", ".", "t", "v", "/", "c", "o", "m", "m", "a", "n", "d", "s", " ", "t", "w", "i", "t", "c", "h", ".", "t", "v", "/", "t", "a", "g", "s">>

\* a line the parser rejects
RawGarbage == <<"@", ";", "b", "a", "d">>

NickA == <<"b", "o", "b">>

PassA == <<"o", "a", "u", "t", "h", ":", "x">>

NickAnon == <<"j", "u", "s", "t", "i", "n", "f", "a", "n", "1", "2", "3", "4", "5">>

PassAnon == <<"j", "u", "s", "t", "_", "a", "_", "l", "i", "l", "_", "g", "u", "y">>

----------------------------------------------------------------------------
(* Values *)

None == <<>>

Some(v) == <<v>>

JUSTINFAN == <<"j", "u", "s", "t", "i", "n", "f", "a", "n">>

\* gen_range(10000u32..99999u32)
ANON_LO == 10000

ANON_HI == 99999

\* variant: the inclusive range 10000..=99999
AnonRange_inclusive == ANON_LO..ANON_HI

\* the half-open range lo..hi
AnonRange == ANON_LO..(ANON_HI - 1)

DigitChar(d) == <<"0", "1", "2", "3", "4", "5", "6", "7", "8", "9">>[d + 1]

\* Display of a u32: its decimal digits, no padding
RECURSIVE FormatU32(_)
FormatU32(n) ==
  IF n < 10 THEN <<DigitChar(n)>>
  ELSE Append(FormatU32(n \div 10), DigitChar(n % 10))

\* ChatConfig::anon with the drawn number n
ChatConfigAnon(n) == [nick |-> JUSTINFAN \o FormatU32(n), pass |-> PassAnon]

\* ChatConfig values the caller builds (ChatConfig::new, ChatConfig::anon)
Configs == { [nick |-> NickA, pass |-> PassA], [nick |-> NickAnon, pass |-> PassAnon] }

\* twitch::Command classifiers
Commands == {"RplWelcome", "Notice", "Capability", "Ping", "Privmsg", "Other"}

\* Option<&str> returned by Message::params
ParamTexts == { None, Some(TxtLoginFailed), Some(TxtImproper), Some(TxtNearMiss),
                Some(TxtAck) }

\* twitch::Message, as far as the client inspects it
Messages == [command : Commands, params : ParamTexts]

\* ReadError
NoRead == [kind |-> "-", raw |-> <<>>]

ReadIo == [kind |-> "Io", raw |-> <<>>]

ReadParse(raw) == [kind |-> "Parse", raw |-> raw]

ReadStreamClosed == [kind |-> "StreamClosed", raw |-> <<>>]

RawLines == { RawGarbage, CRLF }

ReadErrors == { ReadIo, ReadStreamClosed } \cup { ReadParse(r) : r \in RawLines }

\* ConnectionError; io::Error and Elapsed payloads carry nothing the client reads
Err(kind) == [kind |-> kind, read |-> NoRead, tlserr |-> "-", msg |-> None]

\* variant: a read failure is flattened into a plain I/O failure
ErrRead_io(re) == [kind |-> "Io", read |-> NoRead, tlserr |-> "-", msg |-> None]

\* From<ReadError> for ConnectionError
ErrRead(re) == [kind |-> "Read", read |-> re, tlserr |-> "-", msg |-> None]

ErrTls(te) == [kind |-> "Tls", read |-> NoRead, tlserr |-> te, msg |-> None]

ErrMsg(kind, m) == [kind |-> kind, read |-> NoRead, tlserr |-> "-", msg |-> Some(m)]

ConnectionErrors ==
  { Err(k) : k \in {"Io", "Dns", "Open", "Timeout", "InvalidAuth", "Reconnect"} }
    \cup { ErrRead(re) : re \in ReadErrors }
    \cup { ErrTls(te) : te \in {"Io", "Tls"} }
    \cup { ErrMsg(k, m) : k \in {"InvalidFirstMessage", "Notice"}, m \in Messages }

\* Ok(()) / Ok(Client), and "no value returned yet"
Ok == Err("Ok")

Pending == Err("-")

----------------------------------------------------------------------------
(* Pure functions *)

\* str::contains
Contains(s, pat) ==
  \E i \in 1..(Len(s) - Len(pat) + 1) : SubSeq(s, i, i + Len(pat) - 1) = pat

\* variant: unwrap_or(true), a notice without parameter text counts as rejected
ParamsAuthFailed_unwrap_true(m) ==
  IF m.params = None THEN TRUE ELSE Contains(m.params[1], AUTH_FAILED)

\* message.params().map(|v| v.contains("authentication failed")).unwrap_or(false)
ParamsAuthFailed(m) ==
  IF m.params = None THEN FALSE ELSE Contains(m.params[1], AUTH_FAILED)

\* variant: the wildcard arm logs and falls through to Ok(())
HandshakeClassify_fallthrough(m) ==
  CASE m.command = "RplWelcome" -> Ok
    [] m.command = "Notice" ->
         IF m.params # None /\ Contains(m.params[1], AUTH_FAILED)
           THEN Err("InvalidAuth") ELSE ErrMsg("Notice", m)
    [] OTHER -> Ok

\* the match on message.command() that ends Client::handshake
HandshakeClassify(m) ==
  CASE m.command = "RplWelcome" -> Ok
    [] m.command = "Notice" ->
         IF ParamsAuthFailed(m) THEN Err("InvalidAuth") ELSE ErrMsg("Notice", m)
    [] OTHER -> ErrMsg("InvalidFirstMessage", m)

\* variant: an expired deadline is reported as a plain I/O failure
FromElapsed_io == Err("Io")

\* From<Elapsed> for ConnectionError, applied by `?` to an expired deadline
FromElapsed == Err("Timeout")

\* variant: read failures are retried as well
should_retry_read(e) == e.kind = "Open" \/ e.kind = "Io" \/ e.kind = "Read"

\* variant: rejected credentials are retried as well
should_retry_auth(e) == e.kind = "Open" \/ e.kind = "Io" \/ e.kind = "InvalidAuth"

\* variant: an expired reply deadline is retried as well
should_retry_timeout(e) == e.kind = "Open" \/ e.kind = "Io" \/ e.kind = "Timeout"

\* ConnectionError::should_retry; OpenStreamError has the single variant Io
should_retry(e) == e.kind = "Open" \/ e.kind = "Io"

\* variant: every open builds a context of its own
TlsClone_fresh(t) == t + 1

\* tls.clone(): the same shared configuration
TlsClone(t) == t

\* variant: one try more
TRIES_eleven == 10 + 1

\* let mut tries = 10
TRIES == 10

\* let mut delay = Duration::from_secs(3)
DELAY0 == 3

\* variant: delay += 3
NextDelay_add(d) == d + 3

\* variant: delay *= 2
NextDelay_double(d) == d * 2

\* delay *= 3
NextDelay(d) == d * 3

\* while tries != 0
LoopGuard(t) == t # 0

\* the three write! calls of Client::handshake, appended to the scratch String
HandshakeLines(o, cfg) ==
  o \o CAP_REQ \o CAP \o CRLF
    \o NICK \o cfg.nick \o CRLF
    \o PASS \o cfg.pass \o CRLF

\* variant: only the read half is taken from the new stream
split_reader_only(gen) ==
  [reader |-> [gen |-> gen, fused |-> FALSE], writer |-> [gen |-> 0, buffered |-> FALSE]]

\* split: both halves come from the one stream, the line source is fused
split(gen) ==
  [reader |-> [gen |-> gen, fused |-> FALSE], writer |-> [gen |-> gen, buffered |-> FALSE]]

\* write_all without flush: it returns when the TLS session has taken the
\* bytes; the records may or may not have been written to the socket yet
WriteAll(w) == { [w EXCEPT !.buffered = b] : b \in BOOLEAN }

\* a line of the stream: its text and what twitch::parse makes of it
Lines == { [raw |-> <<>>, parsed |-> Some(m)] : m \in Messages }
           \cup { [raw |-> r, parsed |-> None] : r \in RawLines }

NoLine == [raw |-> <<>>, parsed |-> None]

\* what polling the line source yields: Some(Ok(line)), Some(Err(io)), None
StreamItems == { [kind |-> "line", line |-> l] : l \in Lines }
                 \cup { [kind |-> "io", line |-> NoLine], [kind |-> "eof", line |-> NoLine] }

\* no item: Reader::message has not been called
NoItem == [kind |-> "-", line |-> NoLine]

\* twitch::parse: Ok(message) or Err(the text it was given)
TwitchParse(line) ==
  IF line.parsed # None
    THEN [ok |-> TRUE, msg |-> line.parsed, raw |-> <<>>]
    ELSE [ok |-> FALSE, msg |-> None, raw |-> line.raw]

\* variant: the line source is not fused, every call polls it
FuseNext_unfused(rd, item) == item

\* Fuse polls the line source only while it has not returned None
FusePolls(rd) == ~rd.fused

\* Fuse: once the line source has returned None it is not polled again
FuseNext(rd, item) == IF rd.fused THEN [kind |-> "eof", line |-> NoLine] ELSE item

FuseAfter(rd, item) == [rd EXCEPT !.fused = rd.fused \/ item.kind = "eof"]

\* Result<twitch::Message, ReadError>
ROk(m) == [msg |-> Some(m), err |-> NoRead]

RErr(e) == [msg |-> None, err |-> e]

NoResult == [msg |-> None, err |-> NoRead]

\* variant: a rejected line is reported without its text
ReaderMessage_drop_raw(item) ==
  IF item.kind = "eof" THEN RErr(ReadStreamClosed)
  ELSE IF item.kind = "io" THEN RErr(ReadIo)
  ELSE LET p == TwitchParse(item.line)
       IN  IF p.ok THEN ROk(p.msg[1]) ELSE RErr(ReadParse(<<>>))

\* Reader::message on the item the fused line source yields
ReaderMessage(item) ==
  IF item.kind = "eof" THEN RErr(ReadStreamClosed)
  ELSE IF item.kind = "io" THEN RErr(ReadIo)
  ELSE LET p == TwitchParse(item.line)
       IN  IF p.ok THEN ROk(p.msg[1]) ELSE RErr(ReadParse(p.raw))

----------------------------------------------------------------------------
(* Initial state: a ChatConfig has been built, connect has not started *)

Init ==
  /\ pc = "start"
  /\ ctx = "connect"
  /\ reader = [gen |-> 0, fused |-> FALSE]
  /\ writer = [gen |-> 0, buffered |-> FALSE]
  /\ out = <<>>
  /\ tls = 0
  /\ config \in Configs
  /\ tries = 0
  /\ delay = 0
  /\ writeFails = 0
  /\ tlsLoads = 0
  /\ sent = <<>>
  /\ calls = 0
  /\ result = Pending
  /\ hsResult = Pending
  /\ message = None
  /\ sleeps = <<>>
  /\ openAttempts = 0
  /\ openIoFails = 0
  /\ hsRetries = 0
  /\ stages = <<>>
  /\ lastRead = NoResult
  /\ srIn = Pending
  /\ srOut = None
  /\ openedWith = 0
  /\ polled = FALSE
  /\ anonN = 0
  /\ lastSend = "-"
  /\ lastItem = NoItem

clientVars == <<reader, writer, out, tls, config>>

srVars == <<srIn, srOut>>

\* the record of one operation of the caller is started afresh
ResetCall ==
  /\ result' = Pending
  /\ hsResult' = Pending
  /\ message' = None
  /\ sent' = <<>>
  /\ sleeps' = <<>>
  /\ openAttempts' = 0
  /\ openIoFails' = 0
  /\ hsRetries' = 0
  /\ stages' = <<>>

----------------------------------------------------------------------------
(* Client::connect *)

\* TlsConfig::load(ServerName::try_from(conn::HOST)?)? ; HOST is a constant
\* valid DNS name, so only the load can fail
ConnectLoadTls ==
  /\ pc = "start"
  /\ tlsLoads' = tlsLoads + 1
  /\ \E r \in {"ok", "Io", "Tls"} :
       IF r = "ok"
         THEN /\ tls' = tlsLoads + 1
              /\ stages' = Append(stages, "tls:ok")
              /\ pc' = "c_open"
              /\ UNCHANGED result
         ELSE /\ result' = ErrTls(r)
              /\ stages' = Append(stages, "tls:err")
              /\ pc' = "failed"
              /\ UNCHANGED tls
  /\ UNCHANGED <<ctx, reader, writer, out, config, tries, delay, writeFails, sent,
                 calls, hsResult, message, sleeps, openAttempts, openIoFails,
                 hsRetries, lastRead, srVars, openedWith, polled, anonN, lastSend, lastItem>>

\* conn::open(tls.clone()).timeout(timeout).await?? ; split ; Client { .. } ;
\* the handshake runs up to its first await (the three write! calls)
ConnectOpen ==
  /\ pc = "c_open"
  /\ openAttempts' = openAttempts + 1
  /\ \E r \in {"ok", "io", "timeout"} :
       CASE r = "ok" ->
              /\ reader' = split(openAttempts + 1).reader
              /\ writer' = split(openAttempts + 1).writer
              /\ out' = HandshakeLines(<<>>, config)
              /\ stages' = Append(stages, "open:ok")
              /\ pc' = "hs_write"
              /\ UNCHANGED <<result, openIoFails>>
         [] r = "io" ->
              /\ result' = Err("Open")
              /\ openIoFails' = openIoFails + 1
              /\ stages' = Append(stages, "open:io")
              /\ pc' = "failed"
              /\ UNCHANGED <<reader, writer, out>>
         [] r = "timeout" ->
              /\ result' = FromElapsed
              /\ stages' = Append(stages, "open:timeout")
              /\ pc' = "failed"
              /\ UNCHANGED <<reader, writer, out, openIoFails>>
  /\ UNCHANGED <<ctx, tls, config, tries, delay, writeFails, tlsLoads, sent,
                 calls, hsResult, message, sleeps, hsRetries, lastRead, srVars, polled, anonN, lastSend, lastItem>>
  /\ openedWith' = TlsClone(tls)

\* variant: a single `?`, the handshake's own Result is dropped
ConnectAfterHandshake_single_try ==
  /\ pc = "hs_done"
  /\ ctx = "connect"
  /\ result' = Ok
  /\ pc' = "ready"
  /\ UNCHANGED <<ctx, clientVars, tries, delay, writeFails, tlsLoads, sent,
                 calls, hsResult, message, sleeps, openAttempts, openIoFails,
                 hsRetries, stages, lastRead, srVars, openedWith, polled, anonN, lastSend, lastItem>>

\* chat.handshake().timeout(timeout).await?? ; Ok(chat)
ConnectAfterHandshake ==
  /\ pc = "hs_done"
  /\ ctx = "connect"
  /\ result' = hsResult
  /\ pc' = IF hsResult = Ok THEN "ready" ELSE "failed"
  /\ UNCHANGED <<ctx, clientVars, tries, delay, writeFails, tlsLoads, sent,
                 calls, hsResult, message, sleeps, openAttempts, openIoFails,
                 hsRetries, stages, lastRead, srVars, openedWith, polled, anonN, lastSend, lastItem>>

----------------------------------------------------------------------------
(* Client::handshake, from its first await on *)

\* self.writer.raw().write_all(self.out.as_bytes()).await? ; self.out.clear()
HandshakeWriteAll ==
  /\ pc = "hs_write"
  /\ sent' = out
  /\ \/ /\ writer' \in WriteAll(writer)
        /\ out' = <<>>
        /\ stages' = Append(stages, "write:ok")
        /\ pc' = "hs_read"
        /\ UNCHANGED <<hsResult, writeFails>>
     \/ /\ writeFails < MaxWriteFails
        /\ writeFails' = writeFails + 1
        /\ hsResult' = Err("Io")
        /\ stages' = Append(stages, "write:io")
        /\ pc' = "hs_done"
        /\ UNCHANGED <<out, writer>>
  /\ UNCHANGED <<ctx, reader, tls, config, tries, delay, tlsLoads,
                 calls, result, message, sleeps, openAttempts, openIoFails,
                 hsRetries, lastRead, srVars, openedWith, polled, anonN, lastSend, lastItem>>

\* self.reader.message().timeout(Duration::from_secs(5)).await?? and the match
HandshakeMessage ==
  /\ pc = "hs_read"
  /\ \/ \E item \in StreamItems :
          LET it == FuseNext(reader, item)
              r  == ReaderMessage(it)
          IN  /\ reader' = FuseAfter(reader, it)
              /\ IF r.msg # None
                   THEN /\ message' = r.msg
                        /\ hsResult' = HandshakeClassify(r.msg[1])
                        /\ stages' = Append(stages, "read:msg")
                   ELSE /\ hsResult' = ErrRead(r.err)
                        /\ stages' = Append(stages, "read:err")
                        /\ UNCHANGED message
     \/ /\ hsResult' = FromElapsed
        /\ stages' = Append(stages, "read:timeout")
        /\ UNCHANGED <<reader, message>>
  /\ pc' = "hs_done"
  /\ UNCHANGED <<ctx, writer, out, tls, config, tries, delay, writeFails,
                 tlsLoads, sent, calls, result, sleeps, openAttempts,
                 openIoFails, hsRetries, lastRead, srVars, openedWith, polled, anonN, lastSend, lastItem>>

\* the caller's deadline around the whole handshake expires at one of its
\* awaits: the handshake future is dropped and the first `?` returns Timeout
HandshakeDeadline ==
  /\ \/ /\ pc = "hs_write"
        /\ writeFails < MaxWriteFails
        /\ writeFails' = writeFails + 1
     \/ /\ pc = "hs_read"
        /\ UNCHANGED writeFails
  /\ result' = FromElapsed
  /\ stages' = Append(stages, "hs:timeout")
  /\ pc' = IF ctx = "connect" THEN "failed" ELSE "ready"
  /\ UNCHANGED <<ctx, clientVars, tries, delay, tlsLoads, sent, calls,
                 hsResult, message, sleeps, openAttempts, openIoFails,
                 hsRetries, lastRead, srVars, openedWith, polled, anonN, lastSend, lastItem>>

----------------------------------------------------------------------------
(* Client::reconnect *)

\* variant: reconnect loads the TLS configuration again
ReconnectStart_reload ==
  /\ pc = "ready"
  /\ calls < MaxCalls
  /\ calls' = calls + 1
  /\ ctx' = "reconnect"
  /\ tries' = TRIES
  /\ delay' = DELAY0
  /\ reader' = [reader EXCEPT !.gen = 0]
  /\ writer' = [writer EXCEPT !.gen = 0]
  /\ ResetCall
  /\ lastRead' = NoResult
  /\ pc' = "r_loop"
  /\ tls' = tlsLoads + 1
  /\ tlsLoads' = tlsLoads + 1
  /\ UNCHANGED <<out, config, writeFails, srVars, openedWith, anonN>>
  /\ polled' = FALSE
  /\ lastSend' = "-"
  /\ lastItem' = NoItem

\* the caller calls reconnect on the Client it holds; the locals are set
ReconnectStart ==
  /\ pc = "ready"
  /\ calls < MaxCalls
  /\ calls' = calls + 1
  /\ ctx' = "reconnect"
  /\ tries' = TRIES
  /\ delay' = DELAY0
  /\ reader' = [reader EXCEPT !.gen = 0]
  /\ writer' = [writer EXCEPT !.gen = 0]
  /\ ResetCall
  /\ lastRead' = NoResult
  /\ pc' = "r_loop"
  /\ UNCHANGED <<out, tls, config, writeFails, tlsLoads, srVars, openedWith, anonN>>
  /\ polled' = FALSE
  /\ lastSend' = "-"
  /\ lastItem' = NoItem

\* variant: the first attempt is made at once, the sleep separates attempts
ReconnectSleep_between ==
  /\ pc = "r_loop"
  /\ LoopGuard(tries)
  /\ sleeps' = IF tries = TRIES THEN sleeps ELSE Append(sleeps, delay)
  /\ tries' = tries - 1
  /\ delay' = NextDelay(delay)
  /\ stages' = <<"sleep">>
  /\ pc' = "r_open"
  /\ UNCHANGED <<ctx, clientVars, writeFails, tlsLoads, sent, calls, result,
                 hsResult, message, openAttempts, openIoFails, hsRetries,
                 lastRead, srVars, openedWith, polled, anonN, lastSend, lastItem>>

\* variant: `tries -= 1` is left out
ReconnectSleep_no_decrement ==
  /\ pc = "r_loop"
  /\ LoopGuard(tries)
  /\ sleeps' = Append(sleeps, delay)
  /\ tries' = tries
  /\ delay' = NextDelay(delay)
  /\ stages' = <<"sleep">>
  /\ pc' = "r_open"
  /\ UNCHANGED <<ctx, clientVars, writeFails, tlsLoads, sent, calls, result,
                 hsResult, message, openAttempts, openIoFails, hsRetries,
                 lastRead, srVars, openedWith, polled, anonN, lastSend, lastItem>>

\* while tries != 0 { sleep(delay).await; tries -= 1; delay *= 3; ..
ReconnectSleep ==
  /\ pc = "r_loop"
  /\ LoopGuard(tries)
  /\ sleeps' = Append(sleeps, delay)
  /\ tries' = tries - 1
  /\ delay' = NextDelay(delay)
  /\ stages' = <<"sleep">>
  /\ pc' = "r_open"
  /\ UNCHANGED <<ctx, clientVars, writeFails, tlsLoads, sent, calls, result,
                 hsResult, message, openAttempts, openIoFails, hsRetries,
                 lastRead, srVars, openedWith, polled, anonN, lastSend, lastItem>>

\* the loop ends: Err(ConnectionError::Reconnect)
ReconnectExhausted ==
  /\ pc = "r_loop"
  /\ ~LoopGuard(tries)
  /\ result' = Err("Reconnect")
  /\ pc' = "ready"
  /\ UNCHANGED <<ctx, clientVars, tries, delay, writeFails, tlsLoads, sent,
                 calls, hsResult, message, sleeps, openAttempts, openIoFails,
                 hsRetries, stages, lastRead, srVars, openedWith, polled, anonN, lastSend, lastItem>>

\* match conn::open(self.tls.clone()).timeout(timeout).await? { .. } ;
\* (self.reader, self.writer) = split(stream) ; the handshake runs up to its
\* first await (the three write! calls)
ReconnectOpen ==
  /\ pc = "r_open"
  /\ openAttempts' = openAttempts + 1
  /\ \E r \in {"ok", "io", "timeout"} :
       CASE r = "ok" ->
              /\ reader' = split(openAttempts + 1).reader
              /\ writer' = split(openAttempts + 1).writer
              /\ out' = HandshakeLines(out, config)
              /\ stages' = Append(stages, "open:ok")
              /\ hsResult' = Pending
              /\ message' = None
              /\ pc' = "hs_write"
              /\ UNCHANGED <<result, openIoFails>>
         [] r = "io" ->
              /\ openIoFails' = openIoFails + 1
              /\ stages' = Append(stages, "open:io")
              /\ pc' = "r_loop"
              /\ UNCHANGED <<reader, writer, out, result, hsResult, message>>
         [] r = "timeout" ->
              /\ result' = FromElapsed
              /\ stages' = Append(stages, "open:timeout")
              /\ pc' = "ready"
              /\ UNCHANGED <<reader, writer, out, openIoFails, hsResult, message>>
  /\ UNCHANGED <<ctx, tls, config, tries, delay, writeFails, tlsLoads, sent,
                 calls, sleeps, hsRetries, lastRead, srVars, polled, anonN, lastSend, lastItem>>
  /\ openedWith' = TlsClone(tls)

\* if let Err(e) = self.handshake().timeout(timeout).await? { .. } ; return Ok(())
ReconnectAfterHandshake ==
  /\ pc = "hs_done"
  /\ ctx = "reconnect"
  /\ IF hsResult = Ok
       THEN /\ result' = Ok
            /\ pc' = "ready"
            /\ UNCHANGED hsRetries
       ELSE IF should_retry(hsResult)
         THEN /\ hsRetries' = hsRetries + 1
              /\ pc' = "r_loop"
              /\ UNCHANGED result
         ELSE /\ result' = hsResult
              /\ pc' = "ready"
              /\ UNCHANGED hsRetries
  /\ UNCHANGED <<ctx, clientVars, tries, delay, writeFails, tlsLoads, sent,
                 calls, hsResult, message, sleeps, openAttempts, openIoFails,
                 stages, lastRead, srVars, openedWith, polled, anonN, lastSend, lastItem>>

----------------------------------------------------------------------------
(* Steady state: the caller reads through Client::reader() *)

\* variant: a read that finds the stream closed opens a new transport
CallMessage_reopen ==
  /\ pc = "ready"
  /\ ctx' = "message"
  /\ tries' = 0
  /\ delay' = 0
  /\ ResetCall
  /\ \E item \in StreamItems :
       LET it == FuseNext(reader, item)
       IN  /\ lastRead' = ReaderMessage(it)
           /\ lastItem' = it
           /\ IF it.kind = "eof"
                THEN /\ reader' = split(1).reader
                     /\ writer' = split(1).writer
                ELSE /\ reader' = FuseAfter(reader, it)
                     /\ writer' = writer
  /\ UNCHANGED <<pc, out, tls, config, writeFails, tlsLoads, calls, srVars, openedWith, anonN>>
  /\ polled' = FusePolls(reader)
  /\ lastSend' = "-"

\* Reader::message called by the holder of the Client
CallMessage ==
  /\ pc = "ready"
  /\ ctx' = "message"
  /\ tries' = 0
  /\ delay' = 0
  /\ ResetCall
  /\ \E item \in StreamItems :
       LET it == FuseNext(reader, item)
       IN  /\ lastRead' = ReaderMessage(it)
           /\ lastItem' = it
           /\ reader' = FuseAfter(reader, it)
  /\ UNCHANGED <<pc, writer, out, tls, config, writeFails, tlsLoads, calls, srVars, openedWith, anonN>>
  /\ polled' = FusePolls(reader)
  /\ lastSend' = "-"

\* Client::send (twitch/write.rs): self.writer.write_all(s.as_bytes()).await? ;
\* a failed write may have handed part of the bytes to the TLS session
CallSend ==
  /\ pc = "ready"
  /\ ctx' = "send"
  /\ tries' = 0
  /\ delay' = 0
  /\ ResetCall
  /\ writer' \in WriteAll(writer)
  /\ lastSend' \in {"Ok", "Io"}
  /\ lastRead' = NoResult
  /\ polled' = FALSE
  /\ UNCHANGED <<pc, reader, out, tls, config, writeFails, tlsLoads, calls, srVars, openedWith, anonN>>
  /\ lastItem' = NoItem

----------------------------------------------------------------------------
Next ==
  \/ ConnectLoadTls
  \/ ConnectOpen
  \/ ConnectAfterHandshake
  \/ HandshakeWriteAll
  \/ HandshakeMessage
  \/ HandshakeDeadline
  \/ ReconnectStart
  \/ ReconnectSleep
  \/ ReconnectExhausted
  \/ ReconnectOpen
  \/ ReconnectAfterHandshake
  \/ CallMessage
  \/ CallSend

Spec == Init /\ [][Next]_vars

\* a step of a connect or reconnect call that has not returned yet
CallStep == pc \notin {"ready", "failed"} /\ Next

\* the runtime keeps polling a call that is in progress: every sleep ends,
\* and every open and every handshake await completes or hits its deadline
SpecFair == Init /\ [][Next]_vars /\ WF_vars(CallStep)

----------------------------------------------------------------------------
(* ConnectionError::should_retry applied to every value of the type *)

InitShouldRetry ==
  /\ pc = "sr"
  /\ ctx = "should_retry"
  /\ reader = [gen |-> 0, fused |-> FALSE]
  /\ writer = [gen |-> 0, buffered |-> FALSE]
  /\ out = <<>>
  /\ tls = 0
  /\ config \in Configs
  /\ tries = 0
  /\ delay = 0
  /\ writeFails = 0
  /\ tlsLoads = 0
  /\ sent = <<>>
  /\ calls = 0
  /\ result = Pending
  /\ hsResult = Pending
  /\ message = None
  /\ sleeps = <<>>
  /\ openAttempts = 0
  /\ openIoFails = 0
  /\ hsRetries = 0
  /\ stages = <<>>
  /\ lastRead = NoResult
  /\ srIn \in ConnectionErrors
  /\ srOut = None
  /\ openedWith = 0
  /\ polled = FALSE
  /\ anonN = 0
  /\ lastSend = "-"
  /\ lastItem = NoItem

ApplyShouldRetry ==
  /\ pc = "sr"
  /\ srOut = None
  /\ srOut' = Some(should_retry(srIn))
  /\ UNCHANGED <<pc, ctx, clientVars, tries, delay, writeFails, tlsLoads, sent,
                 calls, result, hsResult, message, sleeps, openAttempts,
                 openIoFails, hsRetries, stages, lastRead, srIn, openedWith, polled, anonN, lastSend, lastItem>>

NextShouldRetry == ApplyShouldRetry

SpecShouldRetry == InitShouldRetry /\ [][NextShouldRetry]_vars

----------------------------------------------------------------------------
(* ChatConfig::anon applied to every number the generator can draw *)

InitAnon ==
  /\ pc = "anon"
  /\ ctx = "anon"
  /\ reader = [gen |-> 0, fused |-> FALSE]
  /\ writer = [gen |-> 0, buffered |-> FALSE]
  /\ out = <<>>
  /\ tls = 0
  /\ config = [nick |-> <<>>, pass |-> <<>>]
  /\ tries = 0
  /\ delay = 0
  /\ writeFails = 0
  /\ tlsLoads = 0
  /\ sent = <<>>
  /\ calls = 0
  /\ result = Pending
  /\ hsResult = Pending
  /\ message = None
  /\ sleeps = <<>>
  /\ openAttempts = 0
  /\ openIoFails = 0
  /\ hsRetries = 0
  /\ stages = <<>>
  /\ lastRead = NoResult
  /\ srIn = Pending
  /\ srOut = None
  /\ openedWith = 0
  /\ polled = FALSE
  /\ anonN \in AnonRange
  /\ lastSend = "-"
  /\ lastItem = NoItem

ApplyAnon ==
  /\ pc = "anon"
  /\ config' = ChatConfigAnon(anonN)
  /\ pc' = "anon_done"
  /\ UNCHANGED <<ctx, reader, writer, out, tls, tries, delay, writeFails,
                 tlsLoads, sent, calls, result, hsResult, message, sleeps,
                 openAttempts, openIoFails, hsRetries, stages, lastRead,
                 srVars, openedWith, polled, anonN, lastSend, lastItem>>

NextAnon == ApplyAnon

SpecAnon == InitAnon /\ [][NextAnon]_vars

----------------------------------------------------------------------------
(* Helpers of the properties *)

RECURSIVE Pow(_, _)
Pow(b, n) == IF n = 0 THEN 1 ELSE b * Pow(b, n - 1)

RECURSIVE SumSeq(_)
SumSeq(q) == IF q = <<>> THEN 0 ELSE q[1] + SumSeq(Tail(q))

Last(q) == q[Len(q)]

IsPrefix(p, q) == Len(p) <= Len(q) /\ SubSeq(q, 1, Len(p)) = p

\* the positions in a text at which a "\r\n" ends
CrlfEnds(t) == {i \in 2..Len(t) : t[i - 1] = "\r" /\ t[i] = "\n"}

\* the lines of a text, split at each "\r\n"; what follows the last "\r\n",
\* if anything, is a last line
SplitCrlf(t) ==
  LET ends == CrlfEnds(t)
      n == Cardinality(ends)
      End(k) == IF k = 0 THEN 0
                ELSE CHOOSE e \in ends : Cardinality({x \in ends : x <= e}) = k
      full == [k \in 1..n |-> SubSeq(t, End(k - 1) + 1, End(k) - 2)]
  IN  IF End(n) = Len(t) THEN full
      ELSE Append(full, SubSeq(t, End(n) + 1, Len(t)))

\* the rest of a line after a command prefix, None if the prefix is not there
StripPrefix(line, pre) ==
  IF IsPrefix(pre, line) THEN Some(SubSeq(line, Len(pre) + 1, Len(line))) ELSE None

\* connect / reconnect has returned to the caller
ConnectReturned == ctx = "connect" /\ pc \in {"ready", "failed"}

ReconnectReturned == ctx = "reconnect" /\ pc = "ready"

----------------------------------------------------------------------------
(* Properties *)

\* C1: connect returns a Client only after TLS load, open, handshake write
\* and handshake read all succeeded and the reply was the welcome message;
\* when it returns an error, the steps it ran are the successful steps up to
\* the one that failed, and nothing after it.
C1_ConnectOnlyOnFullSuccess ==
  /\ (ctx = "connect" /\ pc = "ready") =>
       /\ result = Ok
       /\ stages = <<"tls:ok", "open:ok", "write:ok", "read:msg">>
       /\ message # None
       /\ message[1].command = "RplWelcome"
  /\ (ctx = "connect" /\ pc = "failed") =>
       /\ result \in ConnectionErrors
       /\ stages # <<>>
       /\ IsPrefix(SubSeq(stages, 1, Len(stages) - 1), <<"tls:ok", "open:ok", "write:ok">>)
       /\ Last(stages) \in {"tls:err", "open:io", "open:timeout", "write:io",
                            "hs:timeout", "read:err", "read:timeout", "read:msg"}
       /\ Last(stages) = "read:msg" => message[1].command # "RplWelcome"
  /\ ctx = "connect" => openAttempts <= 1 /\ tlsLoads <= 1 /\ sleeps = <<>>

C1_Witness == ctx = "connect" /\ pc = "ready" /\ result = Ok

\* C2: one reconnect call starts at most 10 open attempts, and it returns
\* Reconnect exactly when it made 10 attempts that all ended in a retried
\* failure (of open or of the handshake).
C2_AtMostTenAttempts ==
  /\ ctx = "reconnect" => openAttempts <= 10
  /\ ReconnectReturned =>
       (result = Err("Reconnect") <=> (openAttempts = 10 /\ openIoFails + hsRetries = 10))

C2_Witness ==
  ReconnectReturned /\ result = Err("Reconnect") /\ hsRetries >= 1 /\ openIoFails >= 1

\* C3: the k-th sleep of a reconnect call lasts 3 * 3^(k-1) seconds, whatever
\* ended the attempts before it, and there is one sleep per attempt started.
C3_BackoffSequence ==
  ctx = "reconnect" =>
    /\ \A k \in 1..Len(sleeps) : sleeps[k] = 3 * Pow(3, k - 1)
    /\ Len(sleeps) = openAttempts + (IF pc = "r_open" THEN 1 ELSE 0)

C3_Witness ==
  ctx = "reconnect" /\ Len(sleeps) = 10 /\ hsRetries >= 1 /\ openIoFails >= 1

\* C4 as stated: open fails twice with Io, then open and the handshake
\* succeed: reconnect returns Ok and slept 3s + 9s = 12s in total.
C4_SleptTwelveSeconds ==
  (ReconnectReturned /\ openIoFails = 2 /\ hsRetries = 0 /\ openAttempts = 3) =>
    (result = Ok => SumSeq(sleeps) = 12)

\* C4 amended: in that scenario reconnect returns Ok having slept before each
\* of the three attempts, 3s + 9s + 27s = 39s in total.
C4_SleptThirtyNineSeconds ==
  (ReconnectReturned /\ openIoFails = 2 /\ hsRetries = 0 /\ openAttempts = 3 /\ result = Ok) =>
    (sleeps = <<3, 9, 27>> /\ SumSeq(sleeps) = 39)

C4_Witness ==
  ReconnectReturned /\ openIoFails = 2 /\ hsRetries = 0 /\ openAttempts = 3 /\ result = Ok

\* C5: should_retry answers true exactly for Io and Open(Io), false for Read,
\* Dns, Tls, Timeout, InvalidFirstMessage, InvalidAuth, Notice and Reconnect.
C5_ShouldRetryIff ==
  srOut # None =>
    /\ srIn.kind \in {"Io", "Open"} => srOut[1] = TRUE
    /\ srIn.kind \in {"Read", "Dns", "Tls", "Timeout", "InvalidFirstMessage",
                      "InvalidAuth", "Notice", "Reconnect"} => srOut[1] = FALSE
    /\ srIn.kind \in {"Io", "Open", "Read", "Dns", "Tls", "Timeout",
                      "InvalidFirstMessage", "InvalidAuth", "Notice", "Reconnect"}

C5_Witness == srOut = Some(TRUE) /\ srIn.kind = "Open"

\* C6: a handshake of reconnect that ended with InvalidAuth,
\* InvalidFirstMessage or Notice is followed by nothing but the return of that
\* same failure: the loop is not re-entered.
C6_SemanticFailureIsFatal ==
  (ctx = "reconnect" /\ hsResult.kind \in {"InvalidAuth", "InvalidFirstMessage", "Notice"}) =>
    \/ pc = "hs_done"
    \/ pc = "ready" /\ result = hsResult /\ Len(sleeps) = openAttempts
                    /\ tries = 10 - openAttempts

C6_Witness ==
  ReconnectReturned /\ result = Err("InvalidAuth") /\ tries > 0 /\ openIoFails >= 1

\* C7: a deadline that expires in reconnect (the caller's around open or
\* around the handshake, or the 5 s reply deadline) is followed by nothing
\* but the return of Timeout: the loop is not re-entered.
C7_TimeoutIsFatal ==
  (ctx = "reconnect" /\ stages # <<>>
     /\ Last(stages) \in {"open:timeout", "hs:timeout", "read:timeout"}) =>
    \/ pc = "hs_done" /\ Last(stages) = "read:timeout" /\ hsResult = Err("Timeout")
    \/ pc = "ready" /\ result = Err("Timeout") /\ Len(sleeps) = openAttempts
                    /\ tries = 10 - openAttempts

C7_Witness ==
  ReconnectReturned /\ result = Err("Timeout") /\ tries > 0
    /\ Last(stages) = "read:timeout"

\* C8 as stated: reconnect never returns a low-level I/O failure to its
\* caller, be it of open, of the handshake write or of the handshake read.
C8_IoFailureNeverReturned ==
  ReconnectReturned =>
    ~ (\/ result.kind \in {"Io", "Open"}
       \/ result.kind = "Read" /\ result.read.kind = "Io")

\* C9: whatever message the handshake receives, it ends in exactly one of
\* Ok, InvalidAuth, InvalidFirstMessage(message), Notice(message); welcome
\* gives Ok, a classifier other than welcome and notice gives
\* InvalidFirstMessage carrying the message.
C9_ClassificationTotal ==
  (pc = "hs_done" /\ message # None) =>
    LET m == message[1]
    IN  /\ hsResult \in {Ok, Err("InvalidAuth"), ErrMsg("InvalidFirstMessage", m),
                         ErrMsg("Notice", m)}
        /\ m.command = "RplWelcome" => hsResult = Ok
        /\ m.command = "Notice" => hsResult.kind \in {"InvalidAuth", "Notice"}
        /\ m.command \notin {"RplWelcome", "Notice"} =>
             hsResult = ErrMsg("InvalidFirstMessage", m)

C9_Witness ==
  pc = "hs_done" /\ message # None /\ message[1].command = "Capability"
    /\ hsResult = ErrMsg("InvalidFirstMessage", message[1])

\* C10: a notice whose parameter text contains "authentication failed" ends
\* the handshake with InvalidAuth; a notice with other text or with no
\* parameter text ends it with Notice carrying that message.
C10_NoticeClassification ==
  (pc = "hs_done" /\ message # None /\ message[1].command = "Notice") =>
    LET m == message[1]
    IN  /\ m.params = Some(TxtLoginFailed) => hsResult = Err("InvalidAuth")
        /\ m.params \in {None, Some(TxtImproper), Some(TxtNearMiss), Some(TxtAck)} =>
             hsResult = ErrMsg("Notice", m)

C10_Witness ==
  /\ pc = "hs_done"
  /\ message = Some([command |-> "Notice", params |-> Some(TxtLoginFailed)])
  /\ hsResult = Err("InvalidAuth")

\* C11 as stated: a capability acknowledgment "* ACK :twitch.tv/commands
\* twitch.tv/tags" received as first reply does not end the handshake (it
\* goes on to await the welcome message).
C11_AckDoesNotEndHandshake ==
  LET ack == [command |-> "Capability", params |-> Some(TxtAck)]
  IN  ~ (pc = "hs_done" /\ message = Some(ack))

\* C12 as stated: the bytes a handshake attempt hands to its one write are
\* exactly three lines, CAP REQ :<capabilities>, NICK <nickname> and
\* PASS <credential>, and decoding them gives back the capability list and
\* the nickname and credential of the configuration.
C12_ExactlyThreeCommands ==
  sent # <<>> =>
    LET ls == SplitCrlf(sent)
    IN  /\ Len(ls) = 3
        /\ StripPrefix(ls[1], CAP_REQ) = Some(CAP)
        /\ StripPrefix(ls[2], NICK) = Some(config.nick)
        /\ StripPrefix(ls[3], PASS) = Some(config.pass)

\* C13: no step of reconnect changes the Client's configuration or its TLS
\* context, whatever the outcome and however many attempts it makes.
C13_ReconnectKeepsConfigAndTls ==
  [][ctx' = "reconnect" => (config' = config /\ tls' = tls)]_vars

C13_Witness ==
  ReconnectReturned /\ calls = 2 /\ result = Ok /\ hsRetries >= 1 /\ openIoFails >= 1

\* C14: the TLS context is loaded once, in connect and before the first
\* open; reconnect does not load it, and every open is handed a copy of that
\* one context.
C14_TlsLoadedOnce ==
  /\ tlsLoads <= 1
  /\ openAttempts > 0 => (tlsLoads = 1 /\ tls = 1 /\ openedWith = tls)
  /\ ctx = "reconnect" => (tlsLoads = 1 /\ tls = 1)

C14_Witness ==
  ctx = "reconnect" /\ calls = 2 /\ openAttempts = 3 /\ openedWith = 1

\* C15: once the line source of a read half has reported end of input,
\* every later Reader::message on that half returns StreamClosed without
\* polling the line source, and the half stays closed until reconnect
\* installs a new one.
C15_ClosedStaysClosed ==
  /\ [](ctx = "message" /\ reader.fused => lastRead = RErr(ReadStreamClosed))
  /\ [][(reader.fused /\ ctx' = "message") =>
          (lastRead' = RErr(ReadStreamClosed) /\ ~polled' /\ reader'.fused)]_vars
  /\ [][(reader.fused /\ ~reader'.fused) => (pc = "r_open" /\ reader'.gen # reader.gen)]_vars

C15_Witness ==
  ctx = "message" /\ reader.fused /\ ~polled /\ lastRead = RErr(ReadStreamClosed)

\* C16 as stated: whenever the handshake is waiting for its reply, the
\* commands it wrote have been flushed to the peer.
C16_FlushedBeforeAwait == pc = "hs_read" => ~writer.buffered

\* C17: when the 5 s reply deadline expires, or the caller's deadline around
\* the handshake expires first, the outcome is Timeout (not a Read failure,
\* not InvalidFirstMessage), for connect and for reconnect alike.
C17_DeadlineGivesTimeout ==
  /\ (stages # <<>> /\ Last(stages) = "read:timeout") =>
       /\ hsResult = Err("Timeout")
       /\ pc \in {"hs_done", "ready", "failed"}
       /\ pc \in {"ready", "failed"} => result = Err("Timeout")
  /\ (stages # <<>> /\ Last(stages) = "hs:timeout") =>
       /\ pc \in {"ready", "failed"}
       /\ result = Err("Timeout")

C17_Witness ==
  ctx = "connect" /\ pc = "failed" /\ stages # <<>> /\ Last(stages) = "read:timeout"
    /\ result = Err("Timeout")

\* C18 as stated: connect and reconnect never return a failure that carries
\* a read Parse or StreamClosed failure.
C18_NoParseOrClosedReturned ==
  (ConnectReturned \/ ReconnectReturned) =>
    ~ (result.kind = "Read" /\ result.read.kind \in {"Parse", "StreamClosed"})

\* C18 amended: a failure of the handshake's reply read (unparsable line,
\* closed stream, I/O failure) is what connect and reconnect return, wrapped
\* in Read and carrying that read failure; they return Read in no other case.
C18_ReadFailureWrapped ==
  (ConnectReturned \/ ReconnectReturned) =>
    /\ (stages # <<>> /\ Last(stages) = "read:err") =>
         /\ result.kind = "Read"
         /\ result.read \in ReadErrors
         /\ result = hsResult
         /\ result.read.kind = "StreamClosed" <=> reader.fused
    /\ result.kind = "Read" => (stages # <<>> /\ Last(stages) = "read:err")

C18_Witness ==
  ReconnectReturned /\ result = ErrRead(ReadParse(RawGarbage)) /\ tries > 0

\* C19: the anonymous configuration has the nickname "justinfan" followed by
\* exactly 5 decimal digits, whose value is the drawn number n with
\* 10000 <= n < 99999, and the fixed placeholder credential.
C19_AnonNickname ==
  pc = "anon_done" =>
    LET nick == config.nick
        DigitValue(c) == CHOOSE d \in 0..9 : <<"0", "1", "2", "3", "4", "5", "6", "7", "8", "9">>[d + 1] = c
        v == DigitValue(nick[10]) * 10000 + DigitValue(nick[11]) * 1000
               + DigitValue(nick[12]) * 100 + DigitValue(nick[13]) * 10
               + DigitValue(nick[14])
    IN  /\ Len(nick) = 14
        /\ SubSeq(nick, 1, 9) = <<"j", "u", "s", "t", "i", "n", "f", "a", "n">>
        /\ \A i \in 10..14 : nick[i] \in {"0", "1", "2", "3", "4", "5", "6", "7", "8", "9"}
        /\ v = anonN
        /\ 10000 <= v /\ v < 99999
        /\ config.pass = <<"j", "u", "s", "t", "_", "a", "_", "l", "i", "l", "_", "g", "u", "y">>

C19_Witness == pc = "anon_done" /\ anonN = 99998 /\ config.nick[14] = "8"

\* C20 as stated: the scratch buffer is empty whenever a handshake attempt
\* has returned, whatever its outcome.
C20_ScratchEmptyOnReturn == pc = "hs_done" => out = <<>>

\* C21 as stated: when reconnect returns a failure (a fatal handshake
\* failure, Timeout, or Reconnect), the Client holds the read and write
\* halves it held before the call.
C21_HalvesKeptOnFailure ==
  (ReconnectReturned /\ result # Ok) => (reader.gen = 0 /\ writer.gen = 0)

\* C22: whenever reconnect returns success, the read and write halves the
\* Client holds are the two halves of one transport, the one opened by the
\* last open attempt of this call, and the handshake run on them in that
\* same attempt wrote its commands and received the welcome message.
C22_SuccessMeansFreshWelcomedPair ==
  (ReconnectReturned /\ result = Ok) =>
    /\ reader.gen = writer.gen
    /\ reader.gen # 0
    /\ reader.gen = openAttempts
    /\ stages = <<"sleep", "open:ok", "write:ok", "read:msg">>
    /\ hsResult = Ok
    /\ message # None
    /\ message[1].command = "RplWelcome"

\* reconnect succeeded on its third attempt, after an open and a handshake
\* that were retried
C22_Witness ==
  /\ ReconnectReturned
  /\ result = Ok
  /\ openAttempts = 3
  /\ openIoFails = 1
  /\ hsRetries = 1

\* open attempts of the current reconnect call that have started: those that
\* have completed and the one being awaited
OpenStarted == openAttempts + (IF pc = "r_open" THEN 1 ELSE 0)

\* the steps one attempt of reconnect can have run, in order
AttemptSteps ==
  { <<"sleep">>,
    <<"sleep", "open:io">>,
    <<"sleep", "open:timeout">>,
    <<"sleep", "open:ok">>,
    <<"sleep", "open:ok", "hs:timeout">>,
    <<"sleep", "open:ok", "write:io">>,
    <<"sleep", "open:ok", "write:ok">>,
    <<"sleep", "open:ok", "write:ok", "hs:timeout">>,
    <<"sleep", "open:ok", "write:ok", "read:msg">>,
    <<"sleep", "open:ok", "write:ok", "read:err">>,
    <<"sleep", "open:ok", "write:ok", "read:timeout">> }

\* the current attempt, if any, has run to its end and is to be retried
AttemptFinished ==
  stages = <<>> \/ Last(stages) \in {"open:io", "write:io"}

\* C23: inside a reconnect call every attempt runs sleep, then open, then
\* (only after a successful open) the handshake; the number of completed
\* sleeps equals the number of open attempts started at every point; a
\* sleep starts only when the previous attempt has finished, and an open
\* starts only right after the sleep of its attempt.
C23_SleepOpenHandshakeInSequence ==
  /\ [](ctx = "reconnect" =>
          /\ Len(sleeps) = OpenStarted
          /\ stages = <<>> \/ stages \in AttemptSteps
          /\ pc = "r_loop" => AttemptFinished
          /\ pc = "r_open" <=> stages = <<"sleep">>
          /\ pc = "hs_write" <=> stages = <<"sleep", "open:ok">>
          /\ pc = "hs_read" <=> stages = <<"sleep", "open:ok", "write:ok">>)
  /\ [][(ctx' = "reconnect" /\ Len(sleeps') = Len(sleeps) + 1) =>
          (pc = "r_loop" /\ AttemptFinished /\ pc' = "r_open")]_vars
  /\ [][(ctx' = "reconnect" /\ openAttempts' = openAttempts + 1) =>
          (pc = "r_open" /\ stages = <<"sleep">> /\ Len(sleeps) = openAttempts + 1)]_vars

\* the third attempt of a reconnect call is awaiting the handshake reply
C23_Witness ==
  /\ ctx = "reconnect"
  /\ pc = "hs_read"
  /\ openAttempts = 3
  /\ Len(sleeps) = 3

\* C24: every reconnect call that has started returns; what it returns is
\* success, a failure that is not retried, or Reconnect, and Reconnect only
\* after 10 attempts; it never runs more than 10 sleep-open-handshake cycles.
C24_ReconnectTerminates ==
  /\ [](ctx = "reconnect" => (openAttempts <= 10 /\ Len(sleeps) <= 10))
  /\ [](ReconnectReturned =>
          /\ result \in ({Ok} \cup ConnectionErrors)
          /\ (result # Ok /\ result # Err("Reconnect")) => ~should_retry(result)
          /\ result = Err("Reconnect") => openAttempts = 10)
  /\ ((ctx = "reconnect" /\ pc # "ready") ~> ReconnectReturned)

\* a reconnect call has returned Reconnect after its tenth cycle
C24_Witness ==
  /\ ReconnectReturned
  /\ result = Err("Reconnect")
  /\ Len(sleeps) = 10
  /\ openAttempts = 10

\* the number of handshakes the current call has started
HandshakesStarted == Cardinality({i \in 1..Len(stages) : stages[i] = "open:ok"})

\* message() and send() leave the transport alone: the halves stay those of
\* the same transport, nothing is opened, nothing is slept, the Client stays
\* in the caller's hands
ReadWriteOpenNothing ==
  [][ctx' \in {"message", "send"} =>
       /\ reader'.gen = reader.gen
       /\ writer'.gen = writer.gen
       /\ openAttempts' = 0
       /\ openedWith' = openedWith
       /\ tlsLoads' = tlsLoads
       /\ sleeps' = <<>>
       /\ pc' = pc]_vars

\* connect never sleeps, never retries, starts at most one handshake
ConnectSingleShot ==
  ctx = "connect" =>
    /\ sleeps = <<>>
    /\ hsRetries = 0
    /\ HandshakesStarted <= 1
    /\ HandshakesStarted = 1 => stages[2] = "open:ok"

\* C25 as stated: connect makes exactly one open attempt and at most one
\* handshake attempt, with no sleep and no retry; message() and send()
\* return their failure without opening a transport or replacing the halves.
C25_RecoveryOnlyInReconnect ==
  /\ [](ConnectSingleShot /\ (ConnectReturned => openAttempts = 1))
  /\ ReadWriteOpenNothing

\* C25 amended: connect makes at most one open attempt - exactly one when
\* the TLS configuration was loaded, none when loading it failed - and at
\* most one handshake attempt, with no sleep and no retry; message() and
\* send() return their failure without opening a transport or replacing the
\* halves.
C25_RecoveryOnlyInReconnect_TlsAware ==
  /\ [](ConnectSingleShot
        /\ (ctx = "connect" => openAttempts <= 1)
        /\ (ConnectReturned => openAttempts = (IF tls # 0 THEN 1 ELSE 0)))
  /\ ReadWriteOpenNothing

\* message() has just reported the closed stream and the Client still holds
\* the halves connect gave it
C25_Witness ==
  /\ ctx = "message"
  /\ lastRead = RErr(ReadStreamClosed)
  /\ reader.gen = 1
  /\ writer.gen = 1
  /\ calls = 0

\* connect has returned the failure of the TLS load without opening anything
C25_WitnessNoOpen ==
  /\ ConnectReturned
  /\ result = ErrTls("Io")
  /\ openAttempts = 0

\* C26: message() maps what the line source yields to exactly one result:
\* a line the parser accepts gives that parsed message and no failure; a
\* line the parser rejects gives Parse carrying the text of that line; a
\* failed read gives Io; end of input gives StreamClosed.
C26_MessageOutcomes ==
  ctx = "message" =>
    /\ lastItem.kind \in {"line", "io", "eof"}
    /\ (lastItem.kind = "line" /\ lastItem.line.parsed # None) =>
         (lastRead.msg = lastItem.line.parsed /\ lastRead.err = NoRead)
    /\ (lastItem.kind = "line" /\ lastItem.line.parsed = None) =>
         /\ lastRead.msg = None
         /\ lastRead.err.kind = "Parse"
         /\ lastRead.err.raw = lastItem.line.raw
    /\ lastItem.kind = "io" =>
         (lastRead.msg = None /\ lastRead.err = ReadIo)
    /\ lastItem.kind = "eof" =>
         (lastRead.msg = None /\ lastRead.err = ReadStreamClosed)
    /\ lastRead.err.kind = "Parse" => lastItem.kind = "line"
    /\ lastRead.err.kind = "Io" => lastItem.kind = "io"
    /\ lastRead.err.kind = "StreamClosed" => lastItem.kind = "eof"

\* message() has just reported a line the parser rejected, with its text
C26_Witness ==
  /\ ctx = "message"
  /\ lastItem.kind = "line"
  /\ lastItem.line.raw = RawGarbage
  /\ lastRead = RErr(ReadParse(RawGarbage))

====
